---- MODULE Spec2Model ----
(***************************************************************************)
(* msync: metadata synchronisation between a local music folder and an     *)
(* Android device reached over adb.                                        *)
(*                                                                         *)
(* The model covers the Electron main process (tag codec, ipc handlers,    *)
(* staging of remote files through local temp files), the files on both    *)
(* sides, and the renderer's handleSync run with its progress state.       *)
(***************************************************************************)
EXTENDS Integers, Sequences, FiniteSets, TLC

VARIABLES
    fnPc, fnIn, fnOut,          \* harness applying the pure functions to bounded inputs
    localFs, androidFs, tmpFs,  \* files: local music folder, device storage, os temp dir
    now,                        \* wall clock (Date.now())
    adb,                        \* the AdbManager of the main process and the devices it sees
    ops,                        \* ipc handlers in flight in the main process
    opsLeft, faultsLeft,        \* budgets: user edits still to come, I/O failures still to come
    toRenderer,                 \* ipc messages main -> renderer, in order of sending
    syncProgress,               \* renderer state: SyncProgress (useState)
    localFiles, androidFiles,   \* renderer state: the displayed scan results
    pc, fresh, toSync, idx,     \* handleSync: position, freshFiles, toSync, loop index i
    runsLeft,                   \* budget: sync runs still to come
    device,                     \* renderer state: a device is shown as connected (deviceRef)
    loads,                      \* loadLocalFiles / loadAndroidFiles calls awaiting their scan
    log                         \* history: outcome of each syncMetadata call of the current run

mainVars == <<localFs, androidFs, tmpFs, now, adb, ops, opsLeft, faultsLeft, toRenderer,
              syncProgress, localFiles, androidFiles, pc, fresh, toSync, idx,
              runsLeft, device, loads, log>>
fnVars == <<fnPc, fnIn, fnOut>>
vars == <<fnPc, fnIn, fnOut, localFs, androidFs, tmpFs, now, adb, ops, opsLeft, faultsLeft,
          toRenderer, syncProgress, localFiles, androidFiles, pc, fresh, toSync, idx,
          runsLeft, device, loads, log>>

NoDate == -1          \* a null instant (Date | null)
NoRating == <<>>      \* an undefined raw rating
NoValue == <<>>       \* null / undefined where a record or list is expected

----------------------------------------------------------------------------
(* Bounds of the model *)

MaxRuns == 2        \* sync runs in one behaviour
MaxOps == 2         \* rating edits / plays of device files in one behaviour
MaxFaults == 1      \* failing I/O steps in one behaviour
MaxMatchLen == 2    \* records per side in the inputs of the findMatches harness
MaxAdbSteps == 4    \* tracker events and calls of the AdbManager in one behaviour

----------------------------------------------------------------------------
(* Rating scale conversion (electron/metadata.ts).  A raw rating is a     *)
(* non-negative rational <<n, d>> (n/d), or NoRating for undefined.       *)

PopmMax == 255

\* Math.round(n/d) for n >= 0, d > 0: the nearest integer, halves rounded up
MathRound(n, d) == (2 * n + d) \div (2 * d)

\* a variant in which the value 1 is taken as already canonical
parseRatingStrict(rating) ==
    IF rating = NoRating THEN 0
    ELSE LET n == rating[1]
             d == rating[2]
         IN  IF n < d THEN MathRound(n * 5, d)
             ELSE IF n <= 5 * d THEN MathRound(n, d)
             ELSE MathRound(n * 5, d * PopmMax)

parseRating(rating) ==
    IF rating = NoRating THEN 0
    ELSE LET n == rating[1]
             d == rating[2]
         IN  IF n <= d THEN MathRound(n * 5, d)
             ELSE IF n <= 5 * d THEN MathRound(n, d)
             ELSE MathRound(n * 5, d * PopmMax)

Min(a, b) == IF a <= b THEN a ELSE b
Max(a, b) == IF a >= b THEN a ELSE b

\* a variant on a linear scale
ratingTo255Linear(rating) ==
    MathRound(Min(5, Max(0, MathRound(rating[1], rating[2]))) * PopmMax, 5)

ratingTo255(rating) ==
    LET mapping == <<0, 1, 64, 128, 196, 255>>
    IN  mapping[Min(5, Max(0, MathRound(rating[1], rating[2]))) + 1]

\* what the tag reader (music-metadata) hands to parseRating for a stored POPM byte:
\* the rating normalised to 0..1
NormalizedPopm(byte) == <<byte, PopmMax>>

----------------------------------------------------------------------------
(* File names.  A name is a sequence of tokens, the last one being the     *)
(* extension; a path is a directory and a name.                            *)

LowerTok(t) ==
    CASE t = "Song" -> "song"
      [] t = "B" -> "b"
      [] t = ".MP3" -> ".mp3"
      [] t = ".M4A" -> ".m4a"
      [] OTHER -> t

toLowerCase(name) == [i \in DOMAIN name |-> LowerTok(name[i])]

basename(path) == path.name

Path(dir, name) == [dir |-> dir, name |-> name]

\* path.basename(p, path.extname(p)): the name without its extension
Stem(name) == SubSeq(name, 1, Len(name) - 1)

----------------------------------------------------------------------------
(* MusicFile records and matching (App.tsx) *)

MusicFile(path, title, artist, album, rating, lastMetadataUpdate, format) ==
    [path |-> path, filename |-> basename(path), title |-> title, artist |-> artist,
     album |-> album, rating |-> rating, lastMetadataUpdate |-> lastMetadataUpdate,
     format |-> format]

\* file.lastMetadataUpdate?.getTime() || 0
TimeOf(file) == IF file.lastMetadataUpdate = NoDate THEN 0 ELSE file.lastMetadataUpdate

\* the Map built by androidIndex.set(file.filename.toLowerCase(), file) over the
\* android list in order: a later record replaces an earlier one under the same key
androidIndex(android) ==
    [k \in {toLowerCase(android[i].filename) : i \in DOMAIN android} |->
        LET hits == {i \in DOMAIN android : toLowerCase(android[i].filename) = k}
        IN  android[CHOOSE i \in hits : \A j \in hits : j <= i]]

\* a variant of the comparison in which a tie counts as "local is newer"
DirectionTieToAndroid(localFile, androidFile) ==
    IF TimeOf(localFile) >= TimeOf(androidFile) THEN "toAndroid" ELSE "toLocal"

Direction(localFile, androidFile) ==
    IF TimeOf(localFile) > TimeOf(androidFile) THEN "toAndroid"
    ELSE IF TimeOf(androidFile) > TimeOf(localFile) THEN "toLocal"
    ELSE "same"

\* a variant of the lookup that uses the local filename as it is spelled
RECURSIVE MatchesOfPrefixExact(_, _, _)
MatchesOfPrefixExact(local, index, n) ==
    IF n = 0 THEN <<>>
    ELSE LET prev == MatchesOfPrefixExact(local, index, n - 1)
             localFile == local[n]
             key == localFile.filename
         IN  IF key \in DOMAIN index
             THEN Append(prev, [local |-> localFile, android |-> index[key],
                                direction |-> Direction(localFile, index[key])])
             ELSE prev

RECURSIVE MatchesOfPrefix(_, _, _)
MatchesOfPrefix(local, index, n) ==
    IF n = 0 THEN <<>>
    ELSE LET prev == MatchesOfPrefix(local, index, n - 1)
             localFile == local[n]
             key == toLowerCase(localFile.filename)
         IN  IF key \in DOMAIN index
             THEN Append(prev, [local |-> localFile, android |-> index[key],
                                direction |-> Direction(localFile, index[key])])
             ELSE prev

findMatches(local, android) == MatchesOfPrefix(local, androidIndex(android), Len(local))

\* matches.filter(m => m.direction !== 'same')
NeedsSync(m) == m.direction # "same"
\* a variant of the queue that keeps every match
FilterNothing(matches) == matches

FilterToSync(matches) == SelectSeq(matches, NeedsSync)

----------------------------------------------------------------------------
(* Harness for the pure functions: the inputs are drawn by the initial     *)
(* state, the actions apply the functions.                                 *)

\* raw ratings a tag reader can hand over: a POPM byte, or the byte normalised to 0..1
RawRatings == {<<b, 1>> : b \in 0..PopmMax} \cup {NormalizedPopm(b) : b \in 0..PopmMax}
                \cup {NoRating}

RatingInit ==
    /\ fnPc = "raw"
    /\ fnIn \in RawRatings
    /\ fnOut = <<>>

\* a raw rating is read: parseRating
RatingParse ==
    /\ fnPc = "raw"
    /\ fnOut' = <<parseRating(fnIn)>>
    /\ fnPc' = "canonical"
    /\ UNCHANGED <<fnIn, mainVars>>

\* ratingTo255 applied to the raw value itself, or to its negative
RatingToByte ==
    /\ fnPc = "raw"
    /\ fnIn # NoRating
    /\ \E r \in {fnIn, <<-fnIn[1], fnIn[2]>>} :
          fnOut' = <<r, ratingTo255(r)>>
    /\ fnPc' = "direct"
    /\ UNCHANGED <<fnIn, mainVars>>

\* the canonical rating is written to an mp3: ratingTo255
RatingWrite ==
    /\ fnPc = "canonical"
    /\ fnOut' = Append(fnOut, ratingTo255(<<fnOut[1], 1>>))
    /\ fnPc' = "byte"
    /\ UNCHANGED <<fnIn, mainVars>>

\* the written byte is read back, as the byte or as its normalised value
RatingReread ==
    /\ fnPc = "byte"
    /\ \E raw \in {<<fnOut[2], 1>>, NormalizedPopm(fnOut[2])} :
          fnOut' = Append(fnOut, parseRating(raw))
    /\ fnPc' = "reread"
    /\ UNCHANGED <<fnIn, mainVars>>

\* and written once more
RatingRewrite ==
    /\ fnPc = "reread"
    /\ fnOut' = Append(fnOut, ratingTo255(<<fnOut[3], 1>>))
    /\ fnPc' = "rewritten"
    /\ UNCHANGED <<fnIn, mainVars>>

MatchNamesLocal == {<<"Song", ".MP3">>, <<"b", ".mp3">>}
MatchNamesAndroid == {<<"song", ".mp3">>, <<"Song", ".MP3">>, <<"B", ".mp3">>}
MatchInstants == {NoDate, 0, 1}

\* a scan result: records with distinct paths, in scan order
MatchInputs(side, names) ==
    UNION {
        {[i \in 1..n |-> MusicFile(Path(<<side, i>>, f[i][1]), "", "", "", 0, f[i][2], "mp3")]
            : f \in [1..n -> names \X MatchInstants]}
        : n \in 0..MaxMatchLen}

MatchInit ==
    /\ fnPc = "lists"
    /\ fnIn \in [local : MatchInputs("local", MatchNamesLocal),
                 android : MatchInputs("android", MatchNamesAndroid)]
    /\ fnOut = <<>>

MatchApply ==
    /\ fnPc = "lists"
    /\ fnOut' = findMatches(fnIn.local, fnIn.android)
    /\ fnPc' = "matched"
    /\ UNCHANGED <<fnIn, mainVars>>

\* the application (files, handlers, renderer) does not take part
AppOff ==
    /\ localFs = <<>> /\ androidFs = <<>> /\ tmpFs = <<>>
    /\ now = 0
    /\ ops = <<>>
    /\ opsLeft = 0 /\ faultsLeft = 0 /\ runsLeft = 0
    /\ device = FALSE
    /\ toRenderer = <<>>
    /\ syncProgress = NoValue
    /\ localFiles = <<>> /\ androidFiles = <<>>
    /\ pc = "off" /\ fresh = NoValue /\ toSync = <<>> /\ idx = 0
    /\ loads = <<>>
    /\ log = <<>>

\* the rest of the state does not take part in the harness
MainOff == AppOff /\ adb = NoValue

FnOff == fnPc = "off" /\ fnIn = NoValue /\ fnOut = <<>>

InitRating == RatingInit /\ MainOff

SpecRating ==
    InitRating /\ [][RatingParse \/ RatingToByte \/ RatingWrite \/ RatingReread
                        \/ RatingRewrite]_vars

InitMatch == MatchInit /\ MainOff

SpecMatch == InitMatch /\ [][MatchApply]_vars

----------------------------------------------------------------------------
(* Files and the tag codec (electron/metadata.ts) *)

NoPopm == -1    \* the file carries no POPM frame

File(audio, title, artist, album, popm, mtime) ==
    [audio |-> audio, title |-> title, artist |-> artist, album |-> album,
     popm |-> popm, mtime |-> mtime]

L1 == Path("music", <<"Song", ".MP3">>)
L2 == Path("music", <<"b", ".mp3">>)
L3 == Path("music", <<"only", ".mp3">>)
A1 == Path("sdcard/x", <<"song", ".mp3">>)
A2 == Path("sdcard/x", <<"b", ".mp3">>)
A3 == Path("sdcard/y", <<"b", ".mp3">>)

\* the order in which readdir lists the files of each side
LocalOrder == <<L1, L2, L3, Path("music", <<"x", ".M4A">>), Path("music", <<"cover", ".jpg">>)>>
AndroidOrder ==
    <<A1, A2, A3, Path("sdcard/x", <<"x", ".M4A">>), Path("sdcard/x", <<"cover", ".jpg">>)>>

extname(path) == path.name[Len(path.name)]

SUPPORTED_EXTENSIONS == {".mp3", ".flac", ".m4a", ".ogg", ".wav", ".aiff", ".wma"}

\* a variant that reports every file as mp3
getAudioFormatMp3(filePath) == "mp3"

\* formatMap[ext] || null, the null written "null"
getAudioFormat(filePath) ==
    LET ext == LowerTok(extname(filePath))
    IN  CASE ext = ".mp3" -> "mp3"
          [] ext = ".flac" -> "flac"
          [] ext = ".m4a" -> "m4a"
          [] ext = ".ogg" -> "ogg"
          [] ext = ".wav" -> "wav"
          [] ext = ".aiff" -> "aiff"
          [] ext = ".wma" -> "wma"
          [] OTHER -> "null"

isSupportedAudio(filePath) == LowerTok(extname(filePath)) \in SUPPORTED_EXTENSIONS

\* a variant without the fallback record: a file whose tags cannot be parsed throws
readMetadataNoFallback(filePath, file) ==
    IF getAudioFormat(filePath) = "null" \/ file.audio = "corrupt" THEN NoValue
    ELSE MusicFile(filePath,
                   IF file.title = <<>> THEN Stem(basename(filePath)) ELSE file.title,
                   file.artist, file.album,
                   IF file.popm = NoPopm THEN 0 ELSE parseRating(NormalizedPopm(file.popm)),
                   file.mtime, getAudioFormat(filePath))

\* readMetadata of a file: NoValue stands for the throw on a file without a format;
\* the tags of a corrupt file cannot be parsed, which gives the record of the catch
readMetadata(filePath, file) ==
    IF getAudioFormat(filePath) = "null" THEN NoValue
    ELSE IF file.audio = "corrupt"
    THEN MusicFile(filePath, Stem(basename(filePath)), "", "", 0, file.mtime,
                   getAudioFormat(filePath))
    ELSE MusicFile(filePath,
                   IF file.title = <<>> THEN Stem(basename(filePath)) ELSE file.title,
                   file.artist, file.album,
                   IF file.popm = NoPopm THEN 0 ELSE parseRating(NormalizedPopm(file.popm)),
                   file.mtime, getAudioFormat(filePath))

\* a variant that leaves the modification time alone
writeMetadataKeepTime(filePath, file, metadata, t) ==
    [file EXCEPT
        !.title = IF "title" \in DOMAIN metadata THEN metadata.title ELSE @,
        !.artist = IF "artist" \in DOMAIN metadata THEN metadata.artist ELSE @,
        !.album = IF "album" \in DOMAIN metadata THEN metadata.album ELSE @,
        !.popm = IF "rating" \in DOMAIN metadata /\ LowerTok(extname(filePath)) = ".mp3"
                 THEN ratingTo255(<<metadata.rating, 1>>) ELSE @]

\* a variant that writes every field, an absent one as empty
writeMetadataAllFields(filePath, file, metadata, t) ==
    [file EXCEPT
        !.title = IF "title" \in DOMAIN metadata THEN metadata.title ELSE <<>>,
        !.artist = IF "artist" \in DOMAIN metadata THEN metadata.artist ELSE "",
        !.album = IF "album" \in DOMAIN metadata THEN metadata.album ELSE "",
        !.popm = IF LowerTok(extname(filePath)) = ".mp3"
                 THEN ratingTo255(<<IF "rating" \in DOMAIN metadata
                                    THEN metadata.rating ELSE 0, 1>>)
                 ELSE @,
        !.mtime = t]

\* the file as writeMetadata leaves it at instant t: only the fields present in
\* metadata are set, the rating of an mp3 goes to its POPM frame, then utimes
writeMetadata(filePath, file, metadata, t) ==
    [file EXCEPT
        !.title = IF "title" \in DOMAIN metadata THEN metadata.title ELSE @,
        !.artist = IF "artist" \in DOMAIN metadata THEN metadata.artist ELSE @,
        !.album = IF "album" \in DOMAIN metadata THEN metadata.album ELSE @,
        !.popm = IF "rating" \in DOMAIN metadata /\ LowerTok(extname(filePath)) = ".mp3"
                 THEN ratingTo255(<<metadata.rating, 1>>) ELSE @,
        !.mtime = t]

Existing(order, fs) == SelectSeq(order, LAMBDA q : q \in DOMAIN fs)

\* scanFolder of metadata.ts over the local folder: the supported files are read
\* in order, a file whose readMetadata throws is left out
scanFolder(fs) ==
    LET found == SelectSeq(Existing(LocalOrder, fs), isSupportedAudio)
        read == [i \in DOMAIN found |-> readMetadata(found[i], fs[found[i]])]
    IN  SelectSeq(read, LAMBDA metadata : metadata # NoValue)

\* a variant that always takes the time of the temp copy
FallbackTime(mtime, fallback) == fallback

\* entry.mtime || fallback: the time the device reports for the entry if it is a
\* positive number of seconds
EntryTime(mtime, fallback) == IF mtime > 0 THEN mtime ELSE fallback

\* AdbManager.scanFolder: each supported file is pulled to a temp copy at instant t
\* and read there; the record takes the device's path and the device's time.  A
\* file whose pull or readMetadata throws gets the record of the catch.
adbScanFiles(fs, t, unpullable) ==
    LET found == SelectSeq(Existing(AndroidOrder, fs), isSupportedAudio)
    IN  [i \in DOMAIN found |->
            LET entry == found[i]
                metadata == readMetadata(Path("tmpdir", basename(entry)),
                                         [fs[entry] EXCEPT !.mtime = t])
            IN  IF entry \in unpullable \/ metadata = NoValue
                THEN MusicFile(entry, Stem(basename(entry)), "", "", 0,
                               EntryTime(fs[entry].mtime, NoDate), getAudioFormat(entry))
                ELSE [metadata EXCEPT !.path = entry,
                                      !.lastMetadataUpdate =
                                          EntryTime(fs[entry].mtime, @)]]

adbScanFolder(fs, t) == adbScanFiles(fs, t, {})

FsPut(fs, path, file) ==
    [q \in DOMAIN fs \cup {path} |-> IF q = path THEN file ELSE fs[q]]

FsRemove(fs, path) == [q \in DOMAIN fs \ {path} |-> fs[q]]

\* what is left of a device file when a push breaks off after it has begun
Truncated(file, t) == [file EXCEPT !.audio = "truncated", !.mtime = t]

\* what a throwing writeMetadata can leave of the file: createFromPath or save threw
\* before anything was written, save broke off after it had begun to write, or
\* utimesSync threw after the save
WriteThrows(filePath, file, metadata, t) ==
    {file, Truncated(file, t), writeMetadata(filePath, file, metadata, t)}

----------------------------------------------------------------------------
(* Harness for the tag codec: one file and one writeMetadata call, or one  *)
(* folder and one scan of it                                               *)

\* the file, the Partial<MusicFile> (any subset of the four fields) and the instant
\* of a call; or the folder of one side: an mp3, an m4a and a picture, each absent,
\* sound or with tags that cannot be parsed, a device file possibly reported
\* without a time (0), and the device files whose pull throws
InitCodec ==
    /\ \/ /\ fnPc = "file"
          /\ fnIn \in
                [path : {L1, Path("music", <<"x", ".M4A">>)},
                 file : {File("x", title, artist, "alb", popm, 1) :
                            title \in {<<>>, <<"t">>}, artist \in {"", "art"},
                            popm \in {NoPopm, 64, 255}},
                 metadata : {[k \in fields |-> full[k]] :
                                fields \in SUBSET {"title", "artist", "album", "rating"},
                                full \in [title : {<<"u">>}, artist : {"by"},
                                          album : {"on"}, rating : {0, 4}]},
                 t : {2}]
       \/ /\ fnPc = "folder"
          /\ \E side \in {"local", "android"} :
                LET order == IF side = "local" THEN LocalOrder ELSE AndroidOrder
                    files == {File(audio, <<"t">>, "art", "alb", 128, mtime) :
                                 audio \in {"sound", "corrupt"},
                                 mtime \in IF side = "local" THEN {1} ELSE {0, 1}}
                IN  \E present \in SUBSET {order[1], order[4], order[5]} :
                       \E fs \in [present -> files] :
                          \E unpullable \in
                                SUBSET (IF side = "local" THEN {} ELSE present) :
                             fnIn = [side |-> side, fs |-> fs,
                                     unpullable |-> unpullable, t |-> 2]
    /\ fnOut = <<>>
    /\ MainOff

\* scanFolder(folder) on the local side
ScanLocalFolder ==
    /\ fnPc = "folder" /\ fnIn.side = "local"
    /\ fnOut' = scanFolder(fnIn.fs)
    /\ fnPc' = "scanned"
    /\ UNCHANGED <<fnIn, mainVars>>

\* adbManager.scanFolder(folder) on the device
ScanAndroidFolder ==
    /\ fnPc = "folder" /\ fnIn.side = "android"
    /\ fnOut' = adbScanFiles(fnIn.fs, fnIn.t, fnIn.unpullable)
    /\ fnPc' = "scanned"
    /\ UNCHANGED <<fnIn, mainVars>>

\* writeMetadata(path, metadata) returns, or throws
CodecWrite ==
    /\ fnPc = "file"
    /\ \/ fnOut' = [threw |-> FALSE,
                    file |-> writeMetadata(fnIn.path, fnIn.file, fnIn.metadata, fnIn.t)]
       \/ \E left \in WriteThrows(fnIn.path, fnIn.file, fnIn.metadata, fnIn.t) :
             fnOut' = [threw |-> TRUE, file |-> left]
    /\ fnPc' = "written"
    /\ UNCHANGED <<fnIn, mainVars>>

SpecCodec == InitCodec /\ [][CodecWrite \/ ScanLocalFolder \/ ScanAndroidFolder]_vars

----------------------------------------------------------------------------
(* Scans of a folder tree.  A tree is [ok, present]: which directories can  *)
(* be listed and which audio files exist; a record stands for by its path. *)

TreeDirs == {"root", "root/a", "root/b"}
TreeFiles == {"root/r1", "root/a/a1", "root/b/b1"}

Entry(path, isDirectory) == [path |-> path, isDirectory |-> isDirectory]

\* the listing of each directory, in the order readdir gives it
Listing(dir) ==
    CASE dir = "root" -> <<Entry("root/a", TRUE), Entry("root/r1", FALSE),
                           Entry("root/b", TRUE)>>
      [] dir = "root/a" -> <<Entry("root/a/a1", FALSE)>>
      [] dir = "root/b" -> <<Entry("root/b/b1", FALSE)>>

EntriesOf(tree, dir) ==
    SelectSeq(Listing(dir), LAMBDA entry : entry.isDirectory \/ entry.path \in tree.present)

Scanned(threw, files) == [threw |-> threw, files |-> files]

RECURSIVE scan(_, _)
RECURSIVE ScanEntries(_, _, _)

\* the loop of scan over the first n entries: a subdirectory is scanned in place
\* and whatever it throws leaves the loop
ScanEntries(tree, entries, n) ==
    IF n = 0 THEN Scanned(FALSE, <<>>)
    ELSE LET prev == ScanEntries(tree, entries, n - 1)
             entry == entries[n]
         IN  IF prev.threw THEN prev
             ELSE IF entry.isDirectory
             THEN LET sub == scan(tree, entry.path)
                  IN  IF sub.threw THEN Scanned(TRUE, <<>>)
                      ELSE Scanned(FALSE, prev.files \o sub.files)
             ELSE Scanned(FALSE, Append(prev.files, entry.path))

\* scan(dir) of scanFolder in metadata.ts: readdirSync throws on a directory that
\* cannot be listed
scan(tree, dir) ==
    IF ~tree.ok[dir] THEN Scanned(TRUE, <<>>)
    ELSE ScanEntries(tree, EntriesOf(tree, dir), Len(EntriesOf(tree, dir)))

\* AdbManager.listDirectory: the entries, or none when readdir fails
listDirectory(tree, dirPath) == IF tree.ok[dirPath] THEN EntriesOf(tree, dirPath) ELSE <<>>

RECURSIVE adbScanTree(_, _)
RECURSIVE AdbScanEntries(_, _, _)

\* the loop of AdbManager.scanFolder over the first n entries: a subdirectory
\* whose scan throws is skipped
AdbScanEntries(tree, entries, n) ==
    IF n = 0 THEN <<>>
    ELSE LET prev == AdbScanEntries(tree, entries, n - 1)
             entry == entries[n]
         IN  IF entry.isDirectory
             THEN LET sub == adbScanTree(tree, entry.path)
                  IN  IF sub.threw THEN prev ELSE prev \o sub.files
             ELSE Append(prev, entry.path)

\* AdbManager.scanFolder over a tree: an empty listing is probed with readdir, which
\* throws 'Cannot access ...' for a directory that cannot be listed
adbScanTree(tree, folderPath) ==
    LET entries == listDirectory(tree, folderPath)
    IN  IF Len(entries) = 0 /\ ~tree.ok[folderPath] THEN Scanned(TRUE, <<>>)
        ELSE Scanned(FALSE, AdbScanEntries(tree, entries, Len(entries)))

RECURSIVE TempDirsLeft(_, _)

\* the temp directories (each named by the folder whose scanFolder call made it with
\* mkdtempSync) that exist when AdbManager.scanFolder(folderPath) has returned or
\* thrown: the throw of the probe comes before the try whose finally removes the
\* directory; the temp files inside go with their directory
TempDirsLeft(tree, folderPath) ==
    LET entries == listDirectory(tree, folderPath)
    IN  IF Len(entries) = 0 /\ ~tree.ok[folderPath] THEN {folderPath}
        ELSE UNION {TempDirsLeft(tree, entries[i].path) :
                       i \in {k \in DOMAIN entries : entries[k].isDirectory}}

InitScan ==
    /\ fnPc = "tree"
    /\ fnIn \in [ok : [TreeDirs -> BOOLEAN], present : SUBSET TreeFiles]
    /\ fnOut = <<>>
    /\ MainOff

\* scanFolder(root) on the local side
ScanLocalTree ==
    /\ fnPc = "tree"
    /\ fnOut' = [side |-> "local", result |-> scan(fnIn, "root"), temp |-> {}]
    /\ fnPc' = "scanned"
    /\ UNCHANGED <<fnIn, mainVars>>

\* adbManager.scanFolder(root) on the device
ScanAndroidTree ==
    /\ fnPc = "tree"
    /\ fnOut' = [side |-> "android", result |-> adbScanTree(fnIn, "root"),
                 temp |-> TempDirsLeft(fnIn, "root")]
    /\ fnPc' = "scanned"
    /\ UNCHANGED <<fnIn, mainVars>>

SpecScan == InitScan /\ [][ScanLocalTree \/ ScanAndroidTree]_vars

----------------------------------------------------------------------------
(* AdbManager (adb.ts).  adb.attached are the devices adb sees, adb.pending *)
(* the updateDeviceInfo calls awaiting getProperties, adb.left the budget   *)
(* of tracker events and calls, adb.io the transport requests issued by    *)
(* the calls, adb.calls their number, adb.result the outcome of the last.  *)

Devices == {"d1", "d2"}
NoDevice == "null"      \* currentDevice: Device | null

\* updateDeviceInfo: { id: device.id, model, connected: true }
DeviceInfoOf(d) == [id |-> d, connected |-> TRUE]

Result(method, error) == [method |-> method, error |-> error]

AdbManager(attached, currentDevice, left) ==
    [currentDevice |-> currentDevice,
     deviceInfo |-> IF currentDevice = NoDevice THEN NoValue ELSE DeviceInfoOf(currentDevice),
     attached |-> attached, pending |-> {}, left |-> left,
     io |-> 0, calls |-> 0, result |-> Result("", "")]

DeviceMsg(type) == [type |-> type]

\* what the AdbManager never touches
AdbFrame ==
    UNCHANGED <<localFs, androidFs, tmpFs, now, ops, opsLeft, faultsLeft, syncProgress,
                localFiles, androidFiles, pc, fresh, toSync, idx, runsLeft, device, loads,
                log, fnVars>>

\* a variant of the guard that looks at deviceInfo
NoDeviceInfo(manager) == manager.deviceInfo = NoValue

\* a variant without the check of this.currentDevice
CurrentDeviceUnchecked(manager) == FALSE

\* if (!this.currentDevice) throw new Error('No device connected')
NoCurrentDevice(manager) == manager.currentDevice = NoDevice

\* tracker.on('add'): the device becomes current, updateDeviceInfo is awaited
TrackerAdd(d) ==
    /\ adb.left > 0
    /\ d \notin adb.attached
    /\ adb' = [adb EXCEPT !.attached = @ \cup {d},
                          !.currentDevice = d,
                          !.pending = @ \cup {[device |-> d, from |-> "add"]},
                          !.left = @ - 1]
    /\ UNCHANGED toRenderer
    /\ AdbFrame

\* updateDeviceInfo returns (getProperties answered or failed: deviceInfo is set
\* either way); after an 'add' the manager emits 'device-connected', which main.ts
\* forwards to the window
UpdateDeviceInfoDone(p) ==
    /\ p \in adb.pending
    /\ adb' = [adb EXCEPT !.deviceInfo = DeviceInfoOf(p.device), !.pending = @ \ {p}]
    /\ toRenderer' = IF p.from = "add"
                     THEN Append(toRenderer, DeviceMsg("device-connected"))
                     ELSE toRenderer
    /\ AdbFrame

\* tracker.on('remove')
TrackerRemove(d) ==
    /\ adb.left > 0
    /\ d \in adb.attached
    /\ IF adb.currentDevice = d
       THEN /\ adb' = [adb EXCEPT !.attached = @ \ {d}, !.currentDevice = NoDevice,
                                  !.deviceInfo = NoValue, !.left = @ - 1]
            /\ toRenderer' = Append(toRenderer, DeviceMsg("device-disconnected"))
       ELSE /\ adb' = [adb EXCEPT !.attached = @ \ {d}, !.left = @ - 1]
            /\ toRenderer' = toRenderer
    /\ AdbFrame

\* connect(): the known deviceInfo, or else the first device adb lists
AdbConnect ==
    /\ adb.left > 0
    /\ IF adb.deviceInfo # NoValue \/ adb.attached = {}
       THEN adb' = [adb EXCEPT !.left = @ - 1]
       ELSE \E d \in adb.attached :
               adb' = [adb EXCEPT !.currentDevice = d,
                                  !.pending = @ \cup {[device |-> d, from |-> "connect"]},
                                  !.left = @ - 1]
    /\ UNCHANGED toRenderer
    /\ AdbFrame

\* disconnect()
AdbDisconnect ==
    /\ adb.left > 0
    /\ adb' = [adb EXCEPT !.currentDevice = NoDevice, !.deviceInfo = NoValue,
                          !.left = @ - 1]
    /\ UNCHANGED toRenderer
    /\ AdbFrame

\* a call of one of the device methods: the guard, then the transport request,
\* which succeeds or fails
AdbCall(method) ==
    /\ adb.left > 0
    /\ IF NoCurrentDevice(adb)
       THEN adb' = [adb EXCEPT !.calls = @ + 1, !.left = @ - 1,
                               !.result = Result(method, "No device connected")]
       ELSE \E error \in {"", "transport"} :
               adb' = [adb EXCEPT !.calls = @ + 1, !.left = @ - 1, !.io = @ + 1,
                                  !.result = Result(method, error)]
    /\ UNCHANGED toRenderer
    /\ AdbFrame

AdbScanFolder == AdbCall("scanFolder")
AdbGetFolderTree == AdbCall("getFolderTree")
AdbPullFile == AdbCall("pullFile")
AdbPushFile == AdbCall("pushFile")
AdbDeleteFiles == AdbCall("deleteFiles")

----------------------------------------------------------------------------
(* ipc handlers of the main process that stage a device file through a     *)
(* local temp file (electron/main.ts).  A handler in flight is a record    *)
(* of ops; each action below is one stretch between two awaits.            *)

SyncOp == 0                 \* the id of the renderer's syncMetadata call in flight
EditIds == 1..MaxOps        \* ids of updateAndroidMetadata / playAndroidFile calls

TempDir == "tmp"            \* app.getPath('temp')

\* the temp path each handler computes for a device file
TempPath(kind, androidPath) ==
    CASE kind = "update" -> Path(TempDir, <<"msync-">> \o basename(androidPath))
      [] kind = "play" -> Path(TempDir, <<"msync-play-">> \o basename(androidPath))
      [] kind = "sync" -> Path(TempDir, basename(androidPath))

Progress(current, total, currentFile, status, error) ==
    [current |-> current, total |-> total, currentFile |-> currentFile,
     status |-> status, error |-> error]

IdleProgress == Progress(0, 0, <<>>, "idle", "")

ProgressMsg(progress) == [type |-> "progress", progress |-> progress]
\* the settling of an invoke; call is what the awaiting renderer code still holds
ReplyMsg(id, ok) ==
    [type |-> "reply", id |-> id, ok |-> ok,
     call |-> [kind |-> ops[id].kind, path |-> ops[id].remote, undo |-> ops[id].undo]]

\* direction.from === 'local' && direction.to === 'android'
ToAndroid(op) == op.direction.from = "local" /\ op.direction.to = "android"

\* sourceFiles[0] of a sync-metadata call
SourcePath(op) == IF ToAndroid(op) THEN op.local ELSE op.remote

\* the position after pc in the handler of op
NextPc(op, at) ==
    CASE op.kind = "update" /\ at = "pull" -> "write"
      [] op.kind = "update" /\ at = "write" -> "push"
      [] op.kind = "sync" /\ ToAndroid(op) /\ at = "begin" -> "read"
      [] op.kind = "sync" /\ ToAndroid(op) /\ at = "read" -> "pull"
      [] op.kind = "sync" /\ ToAndroid(op) /\ at = "pull" -> "write"
      [] op.kind = "sync" /\ ToAndroid(op) /\ at = "write" -> "push"
      [] op.kind = "sync" /\ ~ToAndroid(op) /\ at = "begin" -> "pull"
      [] op.kind = "sync" /\ ~ToAndroid(op) /\ at = "pull" -> "read"
      [] op.kind = "sync" /\ ~ToAndroid(op) /\ at = "read" -> "write"
      [] OTHER -> "return"

\* the temp files after the handler's own clean-up: update-android-metadata unlinks
\* its temp path on both paths, sync-metadata and play-android-file unlink nothing
AfterCleanup(op, tfs) == IF op.kind = "update" THEN FsRemove(tfs, op.temp) ELSE tfs

\* what the handler sends on its way out
Outcome(id, op, ok) ==
    IF op.kind = "sync"
    THEN <<ProgressMsg(IF ok THEN Progress(1, 1, <<>>, "complete", "")
                             ELSE Progress(1, 1, basename(SourcePath(op)), "error", "err")),
           ReplyMsg(id, ok)>>
    ELSE <<ReplyMsg(id, ok)>>

\* the handler of op id moves on to its next await, or returns
Advance(id, tfs) ==
    LET op == ops[id]
        next == NextPc(op, op.pc)
    IN  IF next = "return"
        THEN /\ ops' = [k \in DOMAIN ops \ {id} |-> ops[k]]
             /\ tmpFs' = AfterCleanup(op, tfs)
             /\ toRenderer' = toRenderer \o Outcome(id, op, TRUE)
        ELSE /\ ops' = [ops EXCEPT ![id].pc = next]
             /\ tmpFs' = tfs
             /\ toRenderer' = toRenderer

\* the handler of op id throws
Throw(id) ==
    LET op == ops[id]
    IN  /\ ops' = [k \in DOMAIN ops \ {id} |-> ops[k]]
        /\ tmpFs' = AfterCleanup(op, tmpFs)
        /\ toRenderer' = toRenderer \o Outcome(id, op, FALSE)

rendererVars == <<syncProgress, localFiles, androidFiles, pc, fresh, toSync, idx,
                  runsLeft, device, loads, log, opsLeft>>

\* sync-metadata: the progress event sent before the transfer of sourceFiles[i]
OpBegin ==
    /\ SyncOp \in DOMAIN ops
    /\ ops[SyncOp].pc = "begin"
    /\ toRenderer' = Append(toRenderer,
           ProgressMsg(Progress(1, 1, basename(SourcePath(ops[SyncOp])), "syncing", "")))
    /\ ops' = [ops EXCEPT ![SyncOp].pc = NextPc(ops[SyncOp], "begin")]
    /\ UNCHANGED <<localFs, androidFs, tmpFs, now, faultsLeft, rendererVars, adb, fnVars>>

\* sync-metadata: readMetadata of the local source, or of the pulled temp copy
OpRead ==
    /\ SyncOp \in DOMAIN ops
    /\ ops[SyncOp].pc = "read"
    /\ LET op == ops[SyncOp]
           fs == IF ToAndroid(op) THEN localFs ELSE tmpFs
           from == IF ToAndroid(op) THEN op.local ELSE op.temp
       IN  \/ /\ from \in DOMAIN fs
              /\ ops' = [ops EXCEPT ![SyncOp].pc = NextPc(op, "read"),
                                    ![SyncOp].meta = readMetadata(from, fs[from])]
              /\ UNCHANGED <<tmpFs, toRenderer>>
           \/ /\ from \notin DOMAIN fs
              /\ Throw(SyncOp)
    /\ UNCHANGED <<localFs, androidFs, now, faultsLeft, rendererVars, adb, fnVars>>

\* adbManager.pullFile(androidPath, tempPath)
OpPull(id) ==
    /\ id \in DOMAIN ops
    /\ ops[id].pc = "pull"
    /\ LET op == ops[id]
       IN  \/ /\ NoCurrentDevice(adb)
              /\ Throw(id)
              /\ UNCHANGED faultsLeft
           \/ /\ ~NoCurrentDevice(adb)
              /\ op.remote \in DOMAIN androidFs
              /\ Advance(id, FsPut(tmpFs, op.temp,
                                   [androidFs[op.remote] EXCEPT !.mtime = now]))
              /\ UNCHANGED faultsLeft
           \/ /\ ~NoCurrentDevice(adb)
              /\ faultsLeft > 0
              /\ faultsLeft' = faultsLeft - 1
              /\ Throw(id)
    /\ UNCHANGED <<localFs, androidFs, now, rendererVars, adb, fnVars>>

\* writeMetadata(tempPath, metadata), or writeMetadata(targetPath, metadata) of a
\* transfer towards the local side
OpWrite(id) ==
    /\ id \in DOMAIN ops
    /\ ops[id].pc = "write"
    /\ LET op == ops[id]
           toLocal == op.kind = "sync" /\ ~ToAndroid(op)
           fs == IF toLocal THEN localFs ELSE tmpFs
           target == IF toLocal THEN op.local ELSE op.temp
       IN  \/ /\ target \in DOMAIN fs
              /\ LET written == FsPut(fs, target, writeMetadata(target, fs[target], op.meta, now))
                 IN  IF toLocal
                     THEN localFs' = written /\ Advance(id, tmpFs)
                     ELSE localFs' = localFs /\ Advance(id, written)
              /\ now' = now + 1
              /\ UNCHANGED faultsLeft
           \/ /\ target \in DOMAIN fs
              /\ faultsLeft > 0
              /\ faultsLeft' = faultsLeft - 1
              /\ \E left \in WriteThrows(target, fs[target], op.meta, now) :
                    LET written == FsPut(fs, target, left)
                        tfs == IF toLocal THEN tmpFs ELSE written
                    IN  /\ localFs' = IF toLocal THEN written ELSE localFs
                        /\ ops' = [k \in DOMAIN ops \ {id} |-> ops[k]]
                        /\ tmpFs' = AfterCleanup(op, tfs)
                        /\ toRenderer' = toRenderer \o Outcome(id, op, FALSE)
                        /\ now' = IF left = fs[target] THEN now ELSE now + 1
           \/ /\ target \notin DOMAIN fs
              /\ Throw(id)
              /\ UNCHANGED <<localFs, now, faultsLeft>>
    /\ UNCHANGED <<androidFs, rendererVars, adb, fnVars>>

\* adbManager.pushFile(tempPath, androidPath): device.push may throw at once, and the
\* transfer it returns may end, or break off after it has begun to write androidPath
OpPush(id) ==
    /\ id \in DOMAIN ops
    /\ ops[id].pc = "push"
    /\ LET op == ops[id]
       IN  \/ /\ NoCurrentDevice(adb)
              /\ UNCHANGED <<androidFs, now, faultsLeft>>
              /\ Throw(id)
           \/ /\ ~NoCurrentDevice(adb)
              /\ op.temp \in DOMAIN tmpFs
              /\ androidFs' = FsPut(androidFs, op.remote,
                                    [tmpFs[op.temp] EXCEPT !.mtime = now])
              /\ now' = now + 1
              /\ Advance(id, tmpFs)
              /\ UNCHANGED faultsLeft
           \/ /\ ~NoCurrentDevice(adb)
              /\ op.temp \in DOMAIN tmpFs
              /\ faultsLeft > 0
              /\ faultsLeft' = faultsLeft - 1
              /\ UNCHANGED <<androidFs, now>>
              /\ Throw(id)
           \/ /\ ~NoCurrentDevice(adb)
              /\ op.temp \in DOMAIN tmpFs
              /\ op.remote \in DOMAIN androidFs
              /\ faultsLeft > 0
              /\ faultsLeft' = faultsLeft - 1
              /\ androidFs' = FsPut(androidFs, op.remote,
                                    Truncated(androidFs[op.remote], now))
              /\ now' = now + 1
              /\ Throw(id)
           \/ /\ ~NoCurrentDevice(adb)
              /\ op.temp \notin DOMAIN tmpFs
              /\ UNCHANGED <<androidFs, now, faultsLeft>>
              /\ Throw(id)
    /\ UNCHANGED <<localFs, rendererVars, adb, fnVars>>

----------------------------------------------------------------------------
(* The renderer (App.tsx) *)

mainSideVars == <<localFs, androidFs, tmpFs, now, adb>>

\* window.electronAPI.syncMetadata([source], [target], direction) for one pair
SyncCall(pair) ==
    [kind |-> "sync", pc |-> "begin", remote |-> pair.android.path,
     local |-> pair.local.path,
     direction |-> IF pair.direction = "toAndroid"
                   THEN [from |-> "local", to |-> "android"]
                   ELSE [from |-> "android", to |-> "local"],
     temp |-> TempPath("sync", pair.android.path), meta |-> NoValue, undo |-> NoValue]

canSync == device /\ Len(localFiles) > 0 /\ Len(androidFiles) > 0

\* not inside a blocking confirm() dialog
RendererRuns == pc # "confirm"

\* click on "Sync Metadata": handleSync up to the first scan of refreshBothSides.
\* The model follows one run at a time (pc = "idle").
HandleSync ==
    /\ pc = "idle"
    /\ runsLeft > 0
    /\ canSync /\ syncProgress.status # "syncing"
    /\ syncProgress' = Progress(0, 0, <<"Refreshing...">>, "syncing", "")
    /\ pc' = "scanLocal"
    /\ runsLeft' = runsLeft - 1
    /\ UNCHANGED device
    /\ log' = <<>>
    /\ toSync' = <<>>
    /\ idx' = 0
    /\ fresh' = NoValue
    /\ UNCHANGED <<mainSideVars, ops, opsLeft, faultsLeft, toRenderer, localFiles,
                   androidFiles, loads, fnVars>>

\* refreshBothSides: scanLocalFolder returns or throws
RefreshLocal ==
    /\ pc = "scanLocal"
    /\ \/ /\ fresh' = [local |-> scanFolder(localFs), android |-> <<>>]
          /\ localFiles' = scanFolder(localFs)
          /\ pc' = "scanAndroid"
          /\ UNCHANGED <<syncProgress, faultsLeft>>
       \/ /\ faultsLeft > 0
          /\ faultsLeft' = faultsLeft - 1
          /\ syncProgress' = Progress(0, 0, <<>>, "error", "err")
          /\ pc' = "idle"
          /\ UNCHANGED <<fresh, localFiles>>
    /\ UNCHANGED <<mainSideVars, ops, opsLeft, toRenderer, androidFiles, toSync, idx,
                   runsLeft, device, loads, log, fnVars>>

\* the loop body of handleSync for pair i of the queue, up to its await
StartTransfer(queue, i) ==
    /\ syncProgress' = Progress(i + 1, Len(queue), queue[i + 1].local.filename,
                                "syncing", "")
    /\ ops' = [k \in DOMAIN ops \cup {SyncOp} |->
                  IF k = SyncOp THEN SyncCall(queue[i + 1]) ELSE ops[k]]
    /\ idx' = i
    /\ pc' = "awaitSync"

\* a variant of handleSync without the dialog: the loop starts at once
NoReviewGate(queue) ==
    /\ toSync' = queue
    /\ StartTransfer(queue, 0)

\* if (!confirm(confirmMsg)) ...: handleSync stops in the dialog with its queue
ReviewGate(queue) ==
    /\ toSync' = queue
    /\ pc' = "confirm"
    /\ UNCHANGED <<syncProgress, ops, idx>>

\* a variant of refreshBothSides that hands back the lists held in state
StaleFiles(freshLocalFiles, freshAndroidFiles) ==
    [local |-> localFiles, android |-> androidFiles]

\* return { local: freshLocalFiles, android: freshAndroidFiles }
FreshFiles(freshLocalFiles, freshAndroidFiles) ==
    [local |-> freshLocalFiles, android |-> freshAndroidFiles]

\* refreshBothSides: scanAndroidFolder (skipped without a device) returns or
\* throws; on return handleSync goes on to findMatches and to the confirm() dialog
RefreshAndroid ==
    /\ pc = "scanAndroid"
    /\ \/ /\ device => ~NoCurrentDevice(adb)
          /\ LET android == IF device THEN adbScanFolder(androidFs, now) ELSE <<>>
                 freshFiles == FreshFiles(fresh.local, android)
                 matches == findMatches(freshFiles.local, freshFiles.android)
                 queue == FilterToSync(matches)
             IN  /\ fresh' = freshFiles
                 /\ androidFiles' = IF device THEN android ELSE androidFiles
                 /\ IF Len(matches) = 0
                    THEN /\ syncProgress' = IdleProgress
                         /\ pc' = "idle"
                         /\ UNCHANGED <<toSync, ops, idx>>
                    ELSE IF Len(queue) = 0
                    THEN /\ syncProgress' = Progress(0, 0, <<>>, "complete", "")
                         /\ pc' = "idle"
                         /\ UNCHANGED <<toSync, ops, idx>>
                    ELSE ReviewGate(queue)
          /\ UNCHANGED faultsLeft
       \/ /\ device /\ NoCurrentDevice(adb)
          /\ syncProgress' = Progress(0, 0, <<>>, "error", "No device connected")
          /\ pc' = "idle"
          /\ UNCHANGED <<fresh, androidFiles, toSync, ops, idx, faultsLeft>>
       \/ /\ device /\ ~NoCurrentDevice(adb)
          /\ faultsLeft > 0
          /\ faultsLeft' = faultsLeft - 1
          /\ syncProgress' = Progress(0, 0, <<>>, "error", "err")
          /\ pc' = "idle"
          /\ UNCHANGED <<fresh, androidFiles, toSync, ops, idx>>
    /\ UNCHANGED <<mainSideVars, opsLeft, toRenderer, localFiles, runsLeft, device, loads,
                   log, fnVars>>

\* history: the transfer of pair idx has settled; what its target file holds now
Settled(ok) ==
    LET pair == toSync[idx + 1]
    IN  [i |-> idx, ok |-> ok,
         target |-> IF pair.direction = "toAndroid" THEN pair.android.path
                    ELSE pair.local.path,
         after |-> IF pair.direction = "toAndroid" THEN androidFs[pair.android.path]
                   ELSE localFs[pair.local.path]]

\* the user answers the confirm() dialog with OK
ConfirmSync ==
    /\ pc = "confirm"
    /\ StartTransfer(toSync, 0)
    /\ UNCHANGED <<mainSideVars, opsLeft, faultsLeft, toRenderer, localFiles,
                   androidFiles, fresh, toSync, runsLeft, device, loads, log, fnVars>>

\* the user answers the confirm() dialog with Cancel
DeclineSync ==
    /\ pc = "confirm"
    /\ syncProgress' = IdleProgress
    /\ pc' = "idle"
    /\ UNCHANGED <<mainSideVars, ops, opsLeft, faultsLeft, toRenderer, localFiles,
                   androidFiles, fresh, toSync, idx, runsLeft, device, loads, log, fnVars>>

HasMsg(type) == RendererRuns /\ toRenderer # <<>> /\ Head(toRenderer).type = type

\* onSyncProgress listener
OnSyncProgress ==
    /\ HasMsg("progress")
    /\ syncProgress' = Head(toRenderer).progress
    /\ toRenderer' = Tail(toRenderer)
    /\ UNCHANGED <<mainSideVars, ops, opsLeft, faultsLeft, localFiles, androidFiles, pc,
                   fresh, toSync, idx, runsLeft, device, loads, log, fnVars>>

\* onDeviceConnected listener: the device is shown and loadAndroidFiles starts
OnDeviceConnected ==
    /\ HasMsg("device-connected")
    /\ toRenderer' = Tail(toRenderer)
    /\ device' = TRUE
    /\ syncProgress' = IdleProgress
    /\ loads' = [loads EXCEPT !.android = @ + 1]
    /\ UNCHANGED <<mainSideVars, ops, opsLeft, faultsLeft, localFiles, androidFiles, pc,
                   fresh, toSync, idx, runsLeft, log, fnVars>>

\* onDeviceDisconnected listener
OnDeviceDisconnected ==
    /\ HasMsg("device-disconnected")
    /\ toRenderer' = Tail(toRenderer)
    /\ device' = FALSE
    /\ androidFiles' = <<>>
    /\ UNCHANGED <<mainSideVars, ops, opsLeft, faultsLeft, syncProgress, localFiles, pc,
                   fresh, toSync, idx, runsLeft, loads, log, fnVars>>

\* a variant in which the run is given up between two pairs
TransferDoneCancel ==
    /\ HasMsg("reply")
    /\ Head(toRenderer).id = SyncOp /\ Head(toRenderer).ok
    /\ idx + 1 < Len(toSync)
    /\ toRenderer' = Tail(toRenderer)
    /\ log' = Append(log, Settled(TRUE))
    /\ syncProgress' = IdleProgress
    /\ pc' = "idle"
    /\ UNCHANGED <<mainSideVars, ops, opsLeft, faultsLeft, localFiles, androidFiles, fresh,
                   toSync, idx, runsLeft, device, loads, fnVars>>

\* await syncMetadata(...) returns and the queue holds a further pair
TransferDoneNext ==
    /\ HasMsg("reply")
    /\ Head(toRenderer).id = SyncOp /\ Head(toRenderer).ok
    /\ idx + 1 < Len(toSync)
    /\ toRenderer' = Tail(toRenderer)
    /\ log' = Append(log, Settled(TRUE))
    /\ StartTransfer(toSync, idx + 1)
    /\ UNCHANGED <<mainSideVars, opsLeft, faultsLeft, localFiles, androidFiles, fresh,
                   toSync, runsLeft, device, loads, fnVars>>

\* await syncMetadata(...) returns for the last pair: 'complete', then the final
\* refresh, whose loadLocalFiles / loadAndroidFiles set the progress to idle at once
TransferDoneLast ==
    /\ HasMsg("reply")
    /\ Head(toRenderer).id = SyncOp /\ Head(toRenderer).ok
    /\ idx + 1 >= Len(toSync)
    /\ toRenderer' = Tail(toRenderer)
    /\ log' = Append(log, Settled(TRUE))
    /\ syncProgress' = IdleProgress
    /\ loads' = [local |-> loads.local + 1,
                 android |-> loads.android + IF device THEN 1 ELSE 0]
    /\ pc' = "idle"
    /\ UNCHANGED <<mainSideVars, ops, opsLeft, faultsLeft, localFiles, androidFiles,
                   fresh, toSync, idx, runsLeft, device, fnVars>>

\* String(error) of the rejection of an invoke whose handler threw message
StringOfError(message) ==
    CASE message = "err" -> "Error: err"
      [] message = "No device connected" -> "Error: No device connected"

\* a variant of the catch block that leaves the progress as it is
TransferFailedKeepProgress ==
    /\ HasMsg("reply")
    /\ Head(toRenderer).id = SyncOp /\ ~Head(toRenderer).ok
    /\ toRenderer' = Tail(toRenderer)
    /\ log' = Append(log, Settled(FALSE))
    /\ pc' = "idle"
    /\ UNCHANGED <<mainSideVars, ops, opsLeft, faultsLeft, localFiles, androidFiles,
                   fresh, toSync, idx, runsLeft, device, loads, syncProgress, fnVars>>

\* a variant of the catch block that goes on with the next pair of the queue
TransferFailedContinue ==
    /\ HasMsg("reply")
    /\ Head(toRenderer).id = SyncOp /\ ~Head(toRenderer).ok
    /\ toRenderer' = Tail(toRenderer)
    /\ log' = Append(log, Settled(FALSE))
    /\ IF idx + 1 < Len(toSync)
       THEN StartTransfer(toSync, idx + 1)
       ELSE /\ syncProgress' = Progress(idx + 1, Len(toSync),
                                        toSync[idx + 1].local.filename, "error",
                                        StringOfError("err"))
            /\ pc' = "idle"
            /\ UNCHANGED <<ops, idx>>
    /\ UNCHANGED <<mainSideVars, opsLeft, faultsLeft, localFiles, androidFiles, fresh,
                   toSync, runsLeft, device, loads, fnVars>>

\* await syncMetadata(...) throws: the catch block of the loop
TransferFailed ==
    /\ HasMsg("reply")
    /\ Head(toRenderer).id = SyncOp /\ ~Head(toRenderer).ok
    /\ toRenderer' = Tail(toRenderer)
    /\ log' = Append(log, Settled(FALSE))
    /\ syncProgress' = Progress(idx + 1, Len(toSync), toSync[idx + 1].local.filename,
                                "error", StringOfError("err"))
    /\ pc' = "idle"
    /\ UNCHANGED <<mainSideVars, ops, opsLeft, faultsLeft, localFiles, androidFiles,
                   fresh, toSync, idx, runsLeft, device, loads, fnVars>>

\* loadLocalFiles: its scan returns, or throws (the list is kept)
LoadLocalDone ==
    /\ RendererRuns
    /\ loads.local > 0
    /\ loads' = [loads EXCEPT !.local = @ - 1]
    /\ \/ /\ localFiles' = scanFolder(localFs)
          /\ UNCHANGED faultsLeft
       \/ /\ faultsLeft > 0
          /\ faultsLeft' = faultsLeft - 1
          /\ UNCHANGED localFiles
    /\ UNCHANGED <<mainSideVars, ops, opsLeft, toRenderer, syncProgress, androidFiles,
                   pc, fresh, toSync, idx, runsLeft, device, log, fnVars>>

\* loadAndroidFiles: its scan returns, or throws (the list is emptied)
LoadAndroidDone ==
    /\ RendererRuns
    /\ loads.android > 0
    /\ loads' = [loads EXCEPT !.android = @ - 1]
    /\ \/ /\ ~NoCurrentDevice(adb)
          /\ androidFiles' = adbScanFolder(androidFs, now)
          /\ UNCHANGED faultsLeft
       \/ /\ NoCurrentDevice(adb)
          /\ androidFiles' = <<>>
          /\ UNCHANGED faultsLeft
       \/ /\ ~NoCurrentDevice(adb)
          /\ faultsLeft > 0
          /\ faultsLeft' = faultsLeft - 1
          /\ androidFiles' = <<>>
    /\ UNCHANGED <<mainSideVars, ops, opsLeft, toRenderer, syncProgress, localFiles,
                   pc, fresh, toSync, idx, runsLeft, device, log, fnVars>>

\* files.map(f => f.path === filePath ? {...f, rating, lastMetadataUpdate} : f)
WithRating(files, filePath, rating, lastMetadataUpdate) ==
    [i \in DOMAIN files |->
        IF files[i].path = filePath
        THEN [files[i] EXCEPT !.rating = rating, !.lastMetadataUpdate = lastMetadataUpdate]
        ELSE files[i]]

EditRatings == {3}      \* the star the user clicks

\* handleAndroidRatingChange up to its await
RateAndroidFile ==
    /\ RendererRuns
    /\ opsLeft > 0
    /\ \E i \in DOMAIN androidFiles, rating \in EditRatings :
          LET file == androidFiles[i]
              id == MaxOps - opsLeft + 1
          IN  /\ androidFiles' = WithRating(androidFiles, file.path, rating, now)
              /\ ops' = [k \in DOMAIN ops \cup {id} |->
                           IF k = id
                           THEN [kind |-> "update", pc |-> "pull", remote |-> file.path,
                                 local |-> NoValue, direction |-> NoValue,
                                 temp |-> TempPath("update", file.path),
                                 meta |-> [rating |-> rating],
                                 undo |-> [rating |-> file.rating,
                                           lastMetadataUpdate |-> file.lastMetadataUpdate]]
                           ELSE ops[k]]
    /\ opsLeft' = opsLeft - 1
    /\ UNCHANGED <<mainSideVars, faultsLeft, toRenderer, syncProgress, localFiles, pc,
                   fresh, toSync, idx, runsLeft, device, loads, log, fnVars>>

\* handlePlayAndroidFile up to its await
PlayAndroidFile ==
    /\ RendererRuns
    /\ opsLeft > 0
    /\ \E i \in DOMAIN androidFiles :
          LET file == androidFiles[i]
              id == MaxOps - opsLeft + 1
          IN  ops' = [k \in DOMAIN ops \cup {id} |->
                         IF k = id
                         THEN [kind |-> "play", pc |-> "pull", remote |-> file.path,
                               local |-> NoValue, direction |-> NoValue,
                               temp |-> TempPath("play", file.path),
                               meta |-> NoValue, undo |-> NoValue]
                         ELSE ops[k]]
    /\ opsLeft' = opsLeft - 1
    /\ UNCHANGED <<mainSideVars, faultsLeft, toRenderer, syncProgress, localFiles,
                   androidFiles, pc, fresh, toSync, idx, runsLeft, device, loads, log, fnVars>>

\* updateAndroidMetadata / playAndroidFile settles; a failed rating edit is reverted
EditSettled ==
    /\ HasMsg("reply")
    /\ Head(toRenderer).id # SyncOp
    /\ toRenderer' = Tail(toRenderer)
    /\ LET msg == Head(toRenderer)
       IN  IF msg.call.kind = "update" /\ ~msg.ok
           THEN androidFiles' = WithRating(androidFiles, msg.call.path, msg.call.undo.rating,
                                           msg.call.undo.lastMetadataUpdate)
           ELSE androidFiles' = androidFiles
    /\ UNCHANGED <<mainSideVars, ops, opsLeft, faultsLeft, syncProgress, localFiles, pc,
                   fresh, toSync, idx, runsLeft, device, loads, log, fnVars>>

----------------------------------------------------------------------------
(* The system *)

InitialMtimes == {1, 2, 3}
\* the clock starts after every mtime of the initial files
StartOfTime == (CHOOSE m \in InitialMtimes : \A q \in InitialMtimes : q <= m) + 1

LocalFolder(present) ==
    [q \in present |->
        CASE q = L1 -> File("l1", <<>>, "artL1", "albL1", 102, 2)
          [] q = L2 -> File("l2", <<"tL2">>, "artL2", "albL2", 128, 2)
          [] q = L3 -> File("l3", <<"tL3">>, "artL3", "albL3", NoPopm, 2)]

DeviceFolder(m1, m3) ==
    [q \in {A1, A2, A3} |->
        CASE q = A1 -> File("a1", <<"tA1">>, "artA1", "albA1", 255, m1)
          [] q = A2 -> File("a2", <<"tA2">>, "artA2", "albA2", 0, 2)
          [] q = A3 -> File("a3", <<"tA3">>, "artA3", "albA3", 196, m3)]

\* the application after its start-up scans have returned, nothing in flight
Started ==
    /\ FnOff
    /\ tmpFs = <<>>
    /\ now = StartOfTime
    /\ ops = <<>>
    /\ faultsLeft = MaxFaults
    /\ toRenderer = <<>>
    /\ syncProgress = IdleProgress
    /\ localFiles = scanFolder(localFs)
    /\ androidFiles = adbScanFolder(androidFs, StartOfTime)
    /\ pc = "idle" /\ fresh = NoValue /\ toSync = <<>> /\ idx = 0
    /\ loads = [local |-> 0, android |-> 0]
    /\ log = <<>>
    /\ device = TRUE

Init ==
    /\ \E present \in {{L1, L2, L3}, {L3}} : localFs = LocalFolder(present)
    /\ \E m1 \in InitialMtimes, m3 \in InitialMtimes : androidFs = DeviceFolder(m1, m3)
    /\ Started
    /\ adb = AdbManager({"d1"}, "d1", 0)
    /\ opsLeft = 0 /\ runsLeft = MaxRuns

\* the transfers of a sync run, in the main process
SyncHandler ==
    \/ OpBegin
    \/ OpRead
    \/ OpPull(SyncOp)
    \/ OpWrite(SyncOp)
    \/ OpPush(SyncOp)

Next ==
    \/ SyncHandler
    \/ HandleSync
    \/ RefreshLocal
    \/ RefreshAndroid
    \/ ConfirmSync
    \/ DeclineSync
    \/ OnSyncProgress
    \/ TransferDoneNext
    \/ TransferDoneLast
    \/ TransferFailed
    \/ LoadLocalDone
    \/ LoadAndroidDone

\* the sync runs of a user who leaves the device files alone meanwhile
Spec == Init /\ [][Next]_vars

\* the same runs when every call of the main process returns or throws in the end
\* and the renderer's event loop handles every message and settled promise
SpecFair ==
    /\ Init
    /\ [][Next]_vars
    /\ WF_vars(SyncHandler)
    /\ WF_vars(OnSyncProgress)
    /\ WF_vars(TransferDoneNext \/ TransferDoneLast \/ TransferFailed)

InitStaging ==
    /\ localFs = LocalFolder({L1, L2, L3})
    /\ \E m1 \in InitialMtimes : androidFs = DeviceFolder(m1, 2)
    /\ Started
    /\ adb = AdbManager({"d1"}, "d1", 0)
    /\ opsLeft = MaxOps /\ runsLeft = 0

NextStaging ==
    \/ RateAndroidFile
    \/ PlayAndroidFile
    \/ \E id \in EditIds : OpPull(id) \/ OpWrite(id) \/ OpPush(id)
    \/ EditSettled

\* the rating edits and plays of device files, which may overlap
SpecStaging == InitStaging /\ [][NextStaging]_vars

InitLive ==
    /\ localFs = LocalFolder({L1, L2, L3})
    /\ \E m1 \in InitialMtimes : androidFs = DeviceFolder(m1, 2)
    /\ Started
    /\ adb = AdbManager({"d1"}, "d1", 2)
    /\ opsLeft = 1 /\ runsLeft = 1

NextLive ==
    \/ Next
    \/ RateAndroidFile
    \/ \E id \in EditIds : OpPull(id) \/ OpWrite(id) \/ OpPush(id)
    \/ EditSettled
    \/ TrackerRemove("d1")
    \/ TrackerAdd("d1")
    \/ \E p \in adb.pending : UpdateDeviceInfoDone(p)
    \/ OnDeviceConnected
    \/ OnDeviceDisconnected

\* one sync run while the user edits a rating and the device comes and goes
SpecLive == InitLive /\ [][NextLive]_vars

InitAdb ==
    /\ FnOff /\ AppOff
    /\ adb \in {AdbManager({}, NoDevice, MaxAdbSteps),
                AdbManager({"d1"}, "d1", MaxAdbSteps)}

NextAdb ==
    \/ \E d \in Devices : TrackerAdd(d)
    \/ \E d \in Devices : TrackerRemove(d)
    \/ \E p \in adb.pending : UpdateDeviceInfoDone(p)
    \/ AdbConnect
    \/ AdbDisconnect
    \/ AdbScanFolder
    \/ AdbGetFolderTree
    \/ AdbPullFile
    \/ AdbPushFile
    \/ AdbDeleteFiles

\* the AdbManager alone: device events and calls of its methods in any order
SpecAdb == InitAdb /\ [][NextAdb]_vars

-----------------------------------------------------------------------------
\* Properties

SeqRange(seq) == {seq[i] : i \in DOMAIN seq}

\* the instant a record's timestamp stands for in a comparison (absent: 0)
Instant(file) == IF file.lastMetadataUpdate = NoDate THEN 0 ELSE file.lastMetadataUpdate

\* C1: every pair findMatches emits is directed by its two timestamps, an absent
\* one counting as 0: local later gives toAndroid, android later gives toLocal,
\* equal gives same (no transfer)
C1_DirectionRule ==
    fnPc = "matched" =>
        \A i \in DOMAIN fnOut :
            LET l == Instant(fnOut[i].local)
                r == Instant(fnOut[i].android)
            IN  /\ l > r => fnOut[i].direction = "toAndroid"
                /\ r > l => fnOut[i].direction = "toLocal"
                /\ l = r => fnOut[i].direction = "same"

\* two pairs, one per direction, the first against a record without timestamp
C1_Witness ==
    /\ fnPc = "matched"
    /\ Len(fnOut) = 2
    /\ fnOut[1].direction = "toAndroid" /\ fnOut[1].android.lastMetadataUpdate = NoDate
    /\ fnOut[2].direction = "toLocal"

SameNameIgnoringCase(a, b) == toLowerCase(a.filename) = toLowerCase(b.filename)

PairsOf(localFile) == {i \in DOMAIN fnOut : fnOut[i].local = localFile}

\* C2: a local record is paired when, and only when, some android record has the
\* same filename up to case; it then appears in exactly one pair, and the android
\* record of that pair has that filename up to case
C2_OnePairPerLocalFile ==
    fnPc = "matched" =>
        /\ \A i \in DOMAIN fnIn.local :
              Cardinality(PairsOf(fnIn.local[i])) =
                  IF \E a \in SeqRange(fnIn.android) :
                        SameNameIgnoringCase(fnIn.local[i], a)
                  THEN 1 ELSE 0
        /\ \A i \in DOMAIN fnOut :
              /\ fnOut[i].local \in SeqRange(fnIn.local)
              /\ fnOut[i].android \in SeqRange(fnIn.android)
              /\ SameNameIgnoringCase(fnOut[i].local, fnOut[i].android)

\* Song.MP3 is paired with song.mp3 while the other local record stays unpaired,
\* and the android list holds two records of that name
C2_Witness ==
    /\ fnPc = "matched"
    /\ Len(fnIn.local) = 2 /\ Len(fnOut) = 1
    /\ fnOut[1].local.filename = <<"Song", ".MP3">>
    /\ fnOut[1].android.filename = <<"song", ".mp3">>
    /\ Len(fnIn.android) = 2
    /\ SameNameIgnoringCase(fnIn.android[1], fnIn.android[2])

\* the pairs of the present run that call for a transfer
ActionablePairs ==
    IF fresh = NoValue THEN {}
    ELSE {m \in SeqRange(findMatches(fresh.local, fresh.android)) : m.direction # "same"}

\* C3: a step of a sync run creates no file and deletes none, and a file it changes
\* is the older file of a matched pair of the run whose direction is not none
C3_OnlyActionablePairs ==
    [][/\ DOMAIN localFs' = DOMAIN localFs
       /\ DOMAIN androidFs' = DOMAIN androidFs
       /\ \A p \in DOMAIN localFs :
             localFs'[p] # localFs[p] =>
                 \E m \in ActionablePairs : m.local.path = p /\ m.direction = "toLocal"
       /\ \A p \in DOMAIN androidFs :
             androidFs'[p] # androidFs[p] =>
                 \E m \in ActionablePairs : m.android.path = p /\ m.direction = "toAndroid"
      ]_vars

\* a run over two matched pairs, one of them in sync, and an unmatched local file
\* has made its one transfer
C3_Witness ==
    /\ pc = "idle"
    /\ fresh # NoValue
    /\ Len(findMatches(fresh.local, fresh.android)) = 2
    /\ Len(toSync) = 1
    /\ Len(log) = 1 /\ log[1].ok
    /\ L3 \in DOMAIN localFs

\* C4: files change only while the loop of a run is applying, the loop is entered
\* only from the answered dialog, and a run that leaves the dialog without entering
\* the loop is idle with no transfer requested
C4_ReviewGate ==
    [][/\ pc # "awaitSync" => localFs' = localFs /\ androidFs' = androidFs
       /\ pc # "awaitSync" /\ pc' = "awaitSync" => pc = "confirm"
       /\ SyncOp \in DOMAIN ops' => pc' = "awaitSync"
       /\ pc = "confirm" /\ pc' # "awaitSync" =>
             /\ pc' = "idle"
             /\ syncProgress'.status = "idle"
             /\ log' = <<>>
      ]_vars

\* the dialog of a run with a non-empty queue was declined
C4_Witness ==
    /\ pc = "idle"
    /\ syncProgress.status = "idle"
    /\ toSync # <<>>
    /\ log = <<>>
    /\ runsLeft < MaxRuns

\* C5: when the transfer of the pair at index k fails, the run is over in the
\* error state at k+1 of the queue, it is the last transfer of the run, the
\* targets of the pairs below k hold what their transfers left, and the files of
\* the pairs above k are as they were scanned
C5_StopAtFirstFailure ==
    \A j \in DOMAIN log :
        ~log[j].ok =>
            /\ j = Len(log)
            /\ pc = "idle"
            /\ SyncOp \notin DOMAIN ops
            /\ syncProgress.status = "error"
            /\ syncProgress.current = j /\ syncProgress.total = Len(toSync)
            /\ \A b \in 1..(j - 1) :
                  /\ log[b].ok /\ log[b].i = b - 1
                  /\ log[b].after = IF toSync[b].direction = "toAndroid"
                                    THEN androidFs[log[b].target]
                                    ELSE localFs[log[b].target]
            /\ \A a \in (j + 1)..Len(toSync) :
                  /\ toSync[a].local \in SeqRange(scanFolder(localFs))
                  /\ toSync[a].android \in SeqRange(adbScanFolder(androidFs, now))

\* the second of two transfers has failed after the first was applied
C5_Witness ==
    /\ Len(toSync) = 2
    /\ Len(log) = 2
    /\ log[1].ok /\ ~log[2].ok

\* the file a sync transfer writes to, in the file systems fsL and fsA
TargetOf(op, fsL, fsA) ==
    IF ToAndroid(op) THEN readMetadata(op.remote, fsA[op.remote])
    ELSE readMetadata(op.local, fsL[op.local])

SyncReturnsOk ==
    /\ SyncOp \in DOMAIN ops /\ SyncOp \notin DOMAIN ops'
    /\ toRenderer' # <<>>
    /\ toRenderer'[Len(toRenderer')].type = "reply"
    /\ toRenderer'[Len(toRenderer')].ok

\* C6: when a transfer returns successfully the target reads back the title,
\* artist, album and rating that were read from the source for this transfer, and
\* no step of the transfer changes the side of the source
C6_TargetEqualsSnapshot ==
    [][/\ SyncReturnsOk =>
             LET op == ops[SyncOp]
                 target == TargetOf(op, localFs', androidFs')
             IN  /\ target.title = op.meta.title
                 /\ target.artist = op.meta.artist
                 /\ target.album = op.meta.album
                 /\ target.rating = op.meta.rating
       /\ SyncOp \in DOMAIN ops =>
             IF ToAndroid(ops[SyncOp]) THEN localFs' = localFs
             ELSE androidFs' = androidFs
      ]_vars

\* C7: a canonical rating written as a POPM byte and read again is the same
\* rating, and written once more is the same byte
C7_RatingRoundTrip ==
    /\ fnPc \in {"reread", "rewritten"} => fnOut[3] = fnOut[1]
    /\ fnPc = "rewritten" => fnOut[4] = fnOut[2]

\* a call that stages a device file in order to write its tags
IsRemoteWrite(op) == op.kind = "update" \/ (op.kind = "sync" /\ ToAndroid(op))

\* C8: when a call that writes the tags of a device file returns or throws, the
\* temp file it staged no longer exists
C8_TempRemovedOnReturn ==
    [][\A id \in DOMAIN ops :
          id \notin DOMAIN ops' /\ IsRemoteWrite(ops[id]) =>
              ops[id].temp \notin DOMAIN tmpFs'
      ]_vars

\* C9: a device file changes only in the step in which a push onto it succeeds
C9_RemoteChangesOnlyAtPush ==
    [][\A p \in DOMAIN androidFs :
          (p \notin DOMAIN androidFs' \/ androidFs'[p] # androidFs[p]) =>
              \E id \in DOMAIN ops :
                  /\ ops[id].remote = p /\ ops[id].pc = "push"
                  /\ id \notin DOMAIN ops'
                  /\ toRenderer' # <<>>
                  /\ toRenderer'[Len(toRenderer')] = ReplyMsg(id, TRUE)
      ]_vars

\* C10: two staging calls in flight at once never have the same temp path
C10_DistinctTempPaths ==
    \A i, j \in DOMAIN ops : i # j => ops[i].temp # ops[j].temp

\* the queue handleSync builds from scans of the files as they are now
QueueOfScansNow ==
    FilterToSync(findMatches(scanFolder(localFs), adbScanFolder(androidFs, now)))

\* the device-transport operations in flight: handlers at a pull or a push, the
\* device scan of a run's refresh, the device scans of loadAndroidFiles
TransportsInFlight ==
    Cardinality({id \in DOMAIN ops : ops[id].pc \in {"pull", "push"}})
        + (IF pc = "scanAndroid" /\ device THEN 1 ELSE 0)
        + loads.android

\* C11: at most one device-transport operation is in flight at any time
C11_OneTransportAtATime == TransportsInFlight <= 1

\* C12: while the loop of a run is applying a queue of n pairs, the progress the
\* renderer holds is that of the pair in hand: total n, index i + 1
C12_ProgressInQueueOrder ==
    pc = "awaitSync" =>
        /\ syncProgress.total = Len(toSync)
        /\ syncProgress.current = idx + 1

\* C13: while the loop of a run is applying, the progress the renderer holds is
\* 'complete' only when the pair in hand is the last of the queue and its
\* transfer has returned
C13_CompleteOnlyAfterAll ==
    pc = "awaitSync" /\ syncProgress.status = "complete" =>
        /\ idx + 1 = Len(toSync)
        /\ SyncOp \notin DOMAIN ops

Terminal == {"complete", "error"}

\* C14: the step that ends the loop of a run leaves the progress 'complete' or
\* 'error', and from then on the progress leaves these two only by the next click
\* on Sync
C14_TerminalUntilNextSync ==
    [][/\ pc = "awaitSync" /\ pc' = "idle" => syncProgress'.status \in Terminal
       /\ pc = "idle" /\ syncProgress.status \in Terminal
             /\ syncProgress'.status \notin Terminal => pc' = "scanLocal"
      ]_vars

\* C15: a run whose scans succeeded and whose queue is empty (nothing matched, or
\* every pair in sync) ends 'complete', without the dialog and with the files as
\* they were
C15_NothingToDoCompletes ==
    [][pc = "scanAndroid" /\ pc' # "scanAndroid" /\ fresh' # fresh
          /\ FilterToSync(findMatches(fresh'.local, fresh'.android)) = <<>> =>
              /\ pc' = "idle"
              /\ syncProgress'.status = "complete"
              /\ localFs' = localFs /\ androidFs' = androidFs
              /\ SyncOp \notin DOMAIN ops'
      ]_vars

FirstOfName(android, name) ==
    CHOOSE j \in DOMAIN android :
        /\ toLowerCase(android[j].filename) = toLowerCase(name)
        /\ \A k \in 1..(j - 1) : toLowerCase(android[k].filename) # toLowerCase(name)

\* C18: the android record of every pair is the first record of the android list
\* that has the local filename up to case
C18_FirstRemoteWins ==
    fnPc = "matched" =>
        \A i \in DOMAIN fnOut :
            fnOut[i].android =
                fnIn.android[FirstOfName(fnIn.android, fnOut[i].local.filename)]

\* C19: a call of scanFolder, getFolderTree, pullFile, pushFile or deleteFiles made
\* while there is no current device fails with 'No device connected', issues no
\* transport request, and changes neither the manager's device, its device info,
\* its pending work nor what it has emitted
C19_NoDeviceFailsAtOnce ==
    [][adb'.calls # adb.calls /\ adb.currentDevice = NoDevice =>
          /\ adb'.result.error = "No device connected"
          /\ adb'.io = adb.io
          /\ adb'.currentDevice = NoDevice
          /\ adb'.deviceInfo = adb.deviceInfo
          /\ adb'.pending = adb.pending
          /\ adb'.attached = adb.attached
          /\ toRenderer' = toRenderer
      ]_vars

\* pushFile has failed for want of a device after the device of an earlier,
\* served call was removed
C19_Witness ==
    /\ adb # NoValue
    /\ adb.currentDevice = NoDevice
    /\ adb.result = Result("pushFile", "No device connected")
    /\ adb.io > 0
    /\ adb.attached = {}

\* the files of the directories that can be listed along with all their ancestors,
\* in scan order
Reachable(tree) ==
    SelectSeq(<<"root/a/a1", "root/r1", "root/b/b1">>,
              LAMBDA f : /\ f \in tree.present
                         /\ f \in {"root/a/a1"} => tree.ok["root/a"]
                         /\ f \in {"root/b/b1"} => tree.ok["root/b"])

\* C20: on both sides a scan of a root that cannot be listed throws, and a scan of
\* a root that can be listed throws nothing and returns the files of every
\* directory that can be listed, skipping those that cannot
C20_SkipBadSubdirectory ==
    fnPc = "scanned" =>
        IF fnIn.ok["root"]
        THEN /\ ~fnOut.result.threw
             /\ fnOut.result.files = Reachable(fnIn)
        ELSE fnOut.result.threw

\* the run has ended in the error state without a queue, a transfer or a change
\* of a file
EndsFailed ==
    /\ pc' = "idle"
    /\ syncProgress'.status = "error" /\ syncProgress'.error # ""
    /\ toSync' = <<>>
    /\ SyncOp \notin DOMAIN ops'
    /\ localFs' = localFs /\ androidFs' = androidFs

\* C16: a refresh that ends without the records of a side, and a refresh whose
\* device scan ends while no device is connected, end the run in the error state
\* with a message, without matching and without touching a file
C16_ScanFailureFails ==
    [][/\ pc \in {"scanLocal", "scanAndroid"} /\ pc' = "idle" /\ fresh' = fresh
             => EndsFailed
       /\ pc = "scanAndroid" /\ pc' # "scanAndroid"
             /\ (~device \/ NoCurrentDevice(adb)) => EndsFailed
      ]_vars

\* k is the integer nearest to n/d (d > 0), a half counting upwards
Nearest(k, n, d) == (2 * k - 1) * d <= 2 * n /\ 2 * n < (2 * k + 1) * d

\* C25: parseRating gives 0 for an undefined value, the nearest integer to v*5 for
\* v <= 1, to v for 1 < v <= 5 and to v/255*5 for v > 5; the bytes 0, 128 and 255
\* give 0, 3 and 5, and every integer 0..255 gives a value in 0..5
C25_ParseRatingRule ==
    fnPc = "canonical" =>
        /\ fnIn = NoRating => fnOut[1] = 0
        /\ fnIn # NoRating =>
              LET n == fnIn[1]
                  d == fnIn[2]
              IN  /\ n > 5 * d => Nearest(fnOut[1], 5 * n, PopmMax * d)
                  /\ n <= d => Nearest(fnOut[1], 5 * n, d)
                  /\ n > d /\ n <= 5 * d => Nearest(fnOut[1], n, d)
                  /\ d = 1 => fnOut[1] \in 0..5
        /\ fnIn = <<0, 1>> => fnOut[1] = 0
        /\ fnIn = <<128, 1>> => fnOut[1] = 3
        /\ fnIn = <<255, 1>> => fnOut[1] = 5

C25_Witness ==
    /\ fnPc = "canonical"
    /\ \/ fnIn = <<128, 1>> /\ fnOut = <<3>>
       \/ fnIn = <<1, 1>> /\ fnOut = <<5>>

\* C26: ratingTo255 gives the byte of the table 0 -> 0, 1 -> 1, 2 -> 64, 3 -> 128,
\* 4 -> 196, 5 -> 255 for its input rounded and then clamped into 0..5
C26_RatingTo255Table ==
    fnPc = "direct" =>
        \E k \in -PopmMax..PopmMax :
            /\ Nearest(k, fnOut[1][1], fnOut[1][2])
            /\ <<IF k < 0 THEN 0 ELSE IF k > 5 THEN 5 ELSE k, fnOut[2]>>
                  \in {<<0, 0>>, <<1, 1>>, <<2, 64>>, <<3, 128>>, <<4, 196>>, <<5, 255>>}

C26_Witness ==
    /\ fnPc = "direct"
    /\ \/ fnOut = <<<<2, 1>>, 64>>
       \/ fnOut = <<<<-3, 1>>, 0>>
       \/ fnOut = <<<<200, 1>>, 255>>
       \/ fnOut = <<<<128, 255>>, 1>>

\* C23: a writeMetadata call that throws leaves the file as it was before the call
C23_FailedWriteLeavesFile ==
    fnPc = "written" /\ fnOut.threw => fnOut.file = fnIn.file

\* the fields of a file as readMetadata reports them
TagsOf(path, file) ==
    LET m == readMetadata(path, file)
    IN  [title |-> m.title, artist |-> m.artist, album |-> m.album, rating |-> m.rating]

\* C24: after a writeMetadata that returned, each of title, artist, album and rating
\* that is absent from the metadata given reads as it read before the write
C24_OnlyGivenFieldsChange ==
    fnPc = "written" /\ ~fnOut.threw =>
        \A k \in {"title", "artist", "album", "rating"} \ DOMAIN fnIn.metadata :
            TagsOf(fnIn.path, fnOut.file)[k] = TagsOf(fnIn.path, fnIn.file)[k]

C24_Witness ==
    /\ fnPc = "written" /\ ~fnOut.threw
    /\ DOMAIN fnIn.metadata = {"rating"}
    /\ fnIn.file.title # <<>> /\ fnIn.file.artist # ""
    /\ fnOut.file.popm # fnIn.file.popm

\* every instant the state holds: the modification times of the files and the
\* lastMetadataUpdate of the records
InstantsOf(fs) == {fs[q].mtime : q \in DOMAIN fs}
InstantsIn(files) == {files[i].lastMetadataUpdate : i \in DOMAIN files}
RecordedInstants ==
    InstantsOf(localFs) \cup InstantsOf(androidFs) \cup InstantsOf(tmpFs)
        \cup InstantsIn(localFiles) \cup InstantsIn(androidFiles)

\* the writeMetadata call of handler id returns in this step
WriteReturns(id) ==
    /\ id \in DOMAIN ops /\ ops[id].pc = "write"
    /\ \/ id \in DOMAIN ops' /\ ops'[id].pc = "push"
       \/ /\ id \notin DOMAIN ops'
          /\ toRenderer'[Len(toRenderer')].type = "reply"
          /\ toRenderer'[Len(toRenderer')].ok

\* C22: when writeMetadata returns, the file written has the current time as its
\* modification time, which no instant held before the write exceeds
C22_WriteStampsNow ==
    [][\A id \in DOMAIN ops :
          WriteReturns(id) =>
              LET toLocal == ops[id].kind = "sync" /\ ~ToAndroid(ops[id])
                  file == IF toLocal THEN localFs'[ops[id].local] ELSE tmpFs'[ops[id].temp]
              IN  /\ file.mtime = now
                  /\ \A t \in RecordedInstants : t <= file.mtime
      ]_vars

C22_Witness ==
    /\ \E q \in DOMAIN localFs : localFs[q].mtime >= StartOfTime
    /\ \E q \in DOMAIN tmpFs : tmpFs[q].mtime > StartOfTime

\* the tags of the file at q could not be read in the scan of the harness
ReadFailed(q) == fnIn.fs[q].audio = "corrupt" \/ q \in fnIn.unpullable

\* C21: a scan returns one record for every supported file of the folder; the
\* record of a file whose tags could not be read (or which could not be pulled) has
\* the title of its file name, no artist, no album and rating 0, the record of any
\* other file has the file's tags
C21_ReadFailureKeepsScan ==
    fnPc = "scanned" =>
        /\ \A q \in DOMAIN fnIn.fs :
              LowerTok(extname(q)) \in {".mp3", ".m4a"} =>
                  Cardinality({i \in DOMAIN fnOut : fnOut[i].path = q}) = 1
        /\ \A i \in DOMAIN fnOut :
              LET q == fnOut[i].path
                  tags == [k \in {"title", "artist", "album", "rating"} |-> fnOut[i][k]]
              IN  /\ q \in DOMAIN fnIn.fs
                  /\ ReadFailed(q) =>
                        tags = [title |-> Stem(q.name), artist |-> "", album |-> "",
                                rating |-> 0]
                  /\ ~ReadFailed(q) =>
                        tags = [title |-> fnIn.fs[q].title, artist |-> fnIn.fs[q].artist,
                                album |-> fnIn.fs[q].album, rating |-> 3]

C21_Witness ==
    /\ fnPc = "scanned" /\ Len(fnOut) = 2
    /\ ReadFailed(fnOut[1].path) /\ ~ReadFailed(fnOut[2].path)
    /\ fnOut[1].artist = "" /\ fnOut[2].artist = "art"

C28_SupportedFilesOnly ==
    fnPc = "scanned" =>
        \A i \in DOMAIN fnOut :
            <<LowerTok(extname(fnOut[i].path)), fnOut[i].format>> \in
                {<<".mp3", "mp3">>, <<".flac", "flac">>, <<".m4a", "m4a">>,
                 <<".ogg", "ogg">>, <<".wav", "wav">>, <<".aiff", "aiff">>,
                 <<".wma", "wma">>}

C28_Witness ==
    /\ fnPc = "scanned" /\ Cardinality(DOMAIN fnIn.fs) = 3 /\ Len(fnOut) = 2
    /\ fnOut[1].format = "mp3" /\ extname(fnOut[1].path) = ".MP3"
    /\ fnOut[2].format = "m4a"

\* C29: after a transfer has failed, the progress names the local file of the pair
\* that failed, its position in the queue and the queue's length, and carries the
\* text of the error the call was rejected with
C29_FailureNamesPair ==
    \A j \in DOMAIN log :
        ~log[j].ok =>
            syncProgress = Progress(j, Len(toSync), toSync[j].local.filename, "error",
                                    "Error: err")

\* the second pair of a queue of two has failed, in the direction towards the local side
C29_Witness ==
    /\ Len(toSync) = 2 /\ Len(log) = 2 /\ ~log[2].ok
    /\ toSync[2].direction = "toLocal"
    /\ pc = "idle" /\ toRenderer = <<>>

\* the run has left its loop: after the last pair of the queue, or in the error
\* state after a pair that failed
RunEnded ==
    /\ pc = "idle" /\ log # <<>>
    /\ IF log[Len(log)].ok THEN Len(log) = Len(toSync)
       ELSE syncProgress.status = "error"

\* C30: a run that is in its loop over the queue leaves it in the end, and it leaves
\* it in no other way than after the last pair or at a pair that failed
C30_ApplyingEnds ==
    /\ (pc = "awaitSync") ~> RunEnded
    /\ [][pc = "awaitSync" /\ pc' # "awaitSync" => RunEnded']_vars

C30_Witness ==
    /\ pc = "idle" /\ runsLeft = MaxRuns - 1
    /\ Len(toSync) = 2 /\ Len(log) = 2 /\ log[2].ok
    /\ toRenderer = <<>>

\* C34: the manager holds a device info only while it holds a current device, and
\* the info is that device's
C34_InfoOnlyOfCurrentDevice ==
    adb # NoValue /\ adb.deviceInfo # NoValue =>
        /\ adb.currentDevice # NoDevice
        /\ adb.deviceInfo.id = adb.currentDevice

\* C35: 'device-connected' is emitted for a device only while that device is
\* attached, that is not after its remove event unless it was added again
C35_NoConnectedAfterRemove ==
    [][(/\ Len(toRenderer') > Len(toRenderer)
        /\ toRenderer'[Len(toRenderer')] = DeviceMsg("device-connected"))
          => \E p \in adb.pending :
                /\ adb'.pending = adb.pending \ {p}
                /\ p.device \in adb.attached
      ]_vars

\* C31: when a scan of the device has returned or thrown, none of the temp
\* directories it made is left
C31_ScanLeavesNoTemp ==
    fnPc = "scanned" /\ fnOut.side = "android" => fnOut.temp = {}

\* C36: no two pairs of a match result hold the same device record
C36_RemoteInOnePair ==
    fnPc = "matched" =>
        \A i, j \in DOMAIN fnOut :
            i # j => fnOut[i].android.path # fnOut[j].android.path

\* C32: the refresh of a run that follows a run whose transfers all succeeded, no
\* file having changed otherwise, finds nothing to transfer: every pair is in sync,
\* no queue is made and no transfer starts
C32_SecondRunFindsNothing ==
    [][(/\ pc = "scanAndroid" /\ pc' # "scanAndroid"
        /\ runsLeft = MaxRuns - 2
        /\ now > StartOfTime
        /\ faultsLeft = MaxFaults /\ faultsLeft' = faultsLeft)
          => /\ \A i \in DOMAIN fresh'.local, j \in DOMAIN fresh'.android :
                   Direction(fresh'.local[i], fresh'.android[j]) = "same"
                       \/ toLowerCase(fresh'.local[i].filename)
                              # toLowerCase(fresh'.android[j].filename)
             /\ pc' = "idle" /\ toSync' = <<>>
             /\ SyncOp \notin DOMAIN ops'
      ]_vars

\* C33: while a run is between the start of its refresh and its terminal phase
\* (scanning, or applying with a transfer still running or still to come) and the
\* renderer is not blocked in the confirmation, the Sync button is disabled, so no
\* second handleSync can start
C33_OneRunAtATime ==
    (\/ pc \in {"scanLocal", "scanAndroid"}
     \/ /\ pc = "awaitSync"
        /\ (SyncOp \in DOMAIN ops \/ idx + 1 < Len(toSync)))
        => ~(canSync /\ syncProgress.status # "syncing")

\* C38: while the renderer's device state is null (it is only after a
\* device-disconnected event) the Android file list is empty: no scan that was
\* requested before the next device-connected event fills it again
C38_EmptyWhileDisconnected == ~device => androidFiles = <<>>

\* ---- overlapping scans of the local pane ----

MaxScans == 2       \* scan requests of the local pane in one behaviour

\* the files scanFolder(folderPath) finds: those below folderPath
FolderOf(fs, folderPath) == [q \in {r \in DOMAIN fs : r.dir = folderPath} |-> fs[q]]

\* the pane shows no folder yet; the disk holds some files in "music" and none in
\* "downloads"
InitLoads ==
    /\ fnPc = "loads"
    /\ \E present \in SUBSET {L1, L2, L3} : fnIn = [fs |-> LocalFolder(present)]
    /\ fnOut = [localPath |-> "", localFiles |-> <<>>, asked |-> 0, requests |-> {}]
    /\ MainOff

\* Pane onPathChange (or Refresh when path is the shown one): setLocalPath(path) and
\* loadLocalFiles(path) up to its await
OnPathChange(path) ==
    /\ fnPc = "loads"
    /\ fnOut.asked < MaxScans
    /\ fnOut' = [fnOut EXCEPT
                    !.localPath = path,
                    !.asked = @ + 1,
                    !.requests = @ \cup {[id |-> fnOut.asked + 1, path |-> path,
                                          served |-> FALSE, files |-> <<>>]}]
    /\ UNCHANGED <<fnPc, fnIn, mainVars>>

\* ipcMain.handle('scan-local-folder'): the scan of one request finishes in main
ScanLocalServed(r) ==
    /\ fnPc = "loads"
    /\ r \in fnOut.requests /\ ~r.served
    /\ fnOut' = [fnOut EXCEPT
                    !.requests = (@ \ {r}) \cup
                        {[r EXCEPT !.served = TRUE,
                                   !.files = scanFolder(FolderOf(fnIn.fs, r.path))]}]
    /\ UNCHANGED <<fnPc, fnIn, mainVars>>

\* loadLocalFiles after its await: setLocalFiles(files), whichever request it was
LoadLocalFilesReturns(r) ==
    /\ fnPc = "loads"
    /\ r \in fnOut.requests /\ r.served
    /\ fnOut' = [fnOut EXCEPT !.localFiles = r.files, !.requests = @ \ {r}]
    /\ UNCHANGED <<fnPc, fnIn, mainVars>>

SpecLoads ==
    InitLoads /\ [][\/ \E path \in {"music", "downloads"} : OnPathChange(path)
                    \/ \E r \in fnOut.requests : ScanLocalServed(r)
                    \/ \E r \in fnOut.requests : LoadLocalFilesReturns(r)]_vars

\* C39: once every scan request of the local pane has resolved, the list shown is
\* the scan of the path selected last, that is of the most recent request
C39_LatestScanShown ==
    fnPc = "loads" /\ fnOut.asked > 0 /\ fnOut.requests = {} =>
        fnOut.localFiles = scanFolder(FolderOf(fnIn.fs, fnOut.localPath))

\* the records of files that have the given path
RecordsAt(files, filePath) == {files[i] : i \in {k \in DOMAIN files : files[k].path = filePath}}

\* C40: when updateAndroidMetadata of a rating edit settles, no other edit of that
\* file is under way and no push has broken off half-way, the entry shown for the
\* file has the rating the device file holds (after a failure also its
\* lastMetadataUpdate), and the settling changes no other entry
C40_EditSettlesOnDeviceValues ==
    [][(/\ HasMsg("reply")
        /\ \A q \in DOMAIN androidFs : androidFs[q].audio # "truncated"
        /\ toRenderer' = Tail(toRenderer)
        /\ Head(toRenderer).id # SyncOp
        /\ Head(toRenderer).call.kind = "update"
        /\ \A id \in DOMAIN ops :
              ~(ops[id].kind = "update" /\ ops[id].remote = Head(toRenderer).call.path)
        /\ \A k \in DOMAIN toRenderer' :
              ~(/\ toRenderer'[k].type = "reply"
                /\ toRenderer'[k].call.path = Head(toRenderer).call.path))
          => LET msg == Head(toRenderer)
             IN  /\ \A i \in DOMAIN androidFiles :
                       androidFiles[i].path # msg.call.path
                           => androidFiles'[i] = androidFiles[i]
                 /\ \A shown \in RecordsAt(androidFiles', msg.call.path),
                       held \in RecordsAt(adbScanFolder(androidFs, now), msg.call.path) :
                       /\ shown.rating = held.rating
                       /\ ~msg.ok => shown.lastMetadataUpdate = held.lastMetadataUpdate
      ]_vars

\* C37 as stated: a run that leaves Applying while the device is gone (the device was
\* removed during the run and has not come back) ends in the failed phase
C37_DisconnectEndsFailed ==
    [][(/\ pc = "awaitSync" /\ pc' # "awaitSync"
        /\ adb.currentDevice = NoDevice)
          => syncProgress'.status = "error"
      ]_vars

\* C37, corrected: a transfer that reaches pullFile or pushFile while main has no
\* current device throws there and changes no file on either side, and the run
\* that receives the rejection ends in the failed phase without starting the next
\* transfer
C37_NoDeviceStopsTransfer ==
    [][/\ (/\ SyncOp \in DOMAIN ops
           /\ ops[SyncOp].pc \in {"pull", "push"}
           /\ adb.currentDevice = NoDevice
           /\ (SyncOp \in DOMAIN ops' => ops'[SyncOp] # ops[SyncOp]))
             => /\ SyncOp \notin DOMAIN ops'
                /\ localFs' = localFs /\ androidFs' = androidFs
                /\ toRenderer'[Len(toRenderer')] = ReplyMsg(SyncOp, FALSE)
       /\ (/\ HasMsg("reply")
           /\ Head(toRenderer).id = SyncOp /\ ~Head(toRenderer).ok
           /\ toRenderer' = Tail(toRenderer))
             => /\ pc' = "idle"
                /\ syncProgress'.status = "error"
                /\ SyncOp \notin DOMAIN ops'
      ]_vars

\* the rejection of a transfer that found no device is on its way to the renderer
C37_Witness ==
    /\ pc = "awaitSync"
    /\ adb.currentDevice = NoDevice
    /\ faultsLeft = MaxFaults
    /\ \E k \in DOMAIN toRenderer :
          /\ toRenderer[k].type = "reply"
          /\ toRenderer[k].id = SyncOp /\ ~toRenderer[k].ok

====
